---- MODULE Spec2Model ----
(***************************************************************************)
(* scripts/workflow_doctor.py: a static analyser of GitHub Actions         *)
(* workflow files.  The model starts from the directory the tool is given  *)
(* and the parsed tree of each file in it (what yaml.safe_load returns, or *)
(* the fact that it raises), and follows main() step by step.              *)
(*                                                                         *)
(* Python strings whose characters matter (action references, file names)  *)
(* are sequences of one-character strings.  Trigger names are atoms.       *)
(***************************************************************************)
EXTENDS Integers, Sequences, FiniteSets, TLC

VARIABLES dirExists, dir, pc, workflow_paths, reports, stdout, stderr, status

vars == <<dirExists, dir, pc, workflow_paths, reports, stdout, stderr, status>>

(***************************************************************************)
(* Bounds of the model.                                                    *)
(***************************************************************************)
MaxVerLen == 3
MaxSteps == 2
MaxJobs == 2
MaxFiles == 3

(***************************************************************************)
(* Characters and strings.                                                 *)
(***************************************************************************)
Digits == {"0", "1", "2", "3", "4", "5", "6", "7", "8", "9"}
LowerHexLetters == {"a", "b", "c", "d", "e", "f"}
UpperHexLetters == {"A", "B", "C", "D", "E", "F"}
HexChars == Digits \cup LowerHexLetters \cup UpperHexLetters

RECURSIVE Rep(_, _)
Rep(c, n) == IF n = 0 THEN <<>> ELSE <<c>> \o Rep(c, n - 1)

\* str.lower(), on the characters the model uses.
LowerChar(c) ==
    CASE c = "A" -> "a" [] c = "B" -> "b" [] c = "C" -> "c" [] c = "D" -> "d"
      [] c = "E" -> "e" [] c = "F" -> "f" [] c = "G" -> "g" [] c = "I" -> "i"
      [] c = "L" -> "l" [] c = "M" -> "m" [] c = "N" -> "n" [] c = "R" -> "r"
      [] c = "S" -> "s" [] c = "T" -> "t" [] OTHER -> c

Lower(s) == [i \in 1..Len(s) |-> LowerChar(s[i])]

\* "@" in ref
Contains(s, c) == \E i \in 1..Len(s) : s[i] = c

\* ref.split("@", 1)[1]: what follows the first separator, scanning from the left.
RECURSIVE AfterFirst(_, _)
AfterFirst(s, c) ==
    IF s = <<>> THEN <<>>
    ELSE IF Head(s) = c THEN Tail(s)
    ELSE AfterFirst(Tail(s), c)

FloatingBranches ==
    { <<"m", "a", "i", "n">>, <<"m", "a", "s", "t", "e", "r">>,
      <<"l", "a", "t", "e", "s", "t">>, <<"e", "d", "g", "e">> }

\* re.fullmatch(r"\d+(\.\d+)*", s): a digit group, then either the end or a
\* dot and the rest.
RECURSIVE DropDigits(_)
DropDigits(s) ==
    IF s # <<>> /\ Head(s) \in Digits THEN DropDigits(Tail(s)) ELSE s

RECURSIVE MatchDigitGroups(_)
MatchDigitGroups(s) ==
    /\ s # <<>>
    /\ Head(s) \in Digits
    /\ LET rest == DropDigits(s)
       IN  \/ rest = <<>>
           \/ /\ Head(rest) = "."
              /\ MatchDigitGroups(Tail(rest))

\* re.fullmatch(r"v?\d+(\.\d+)*", version)
MatchVersionTag(version) ==
    \/ MatchDigitGroups(version)
    \/ /\ version # <<>>
       /\ Head(version) = "v"
       /\ MatchDigitGroups(Tail(version))

MinShaLen == 7
MaxShaLen == 40

\* re.fullmatch(r"[0-9a-fA-F]{7,40}", version)
MatchSha(version) ==
    /\ Len(version) >= MinShaLen
    /\ Len(version) <= MaxShaLen
    /\ \A i \in 1..Len(version) : version[i] \in HexChars

Classifications == {"unpinned", "floating-branch", "floating-tag", "pinned-sha", "tagged"}

\* The hexadecimal test made before the version-number test.
classify_sha_first(ref) ==
    IF ~Contains(ref, "@") THEN "unpinned"
    ELSE LET version == AfterFirst(ref, "@")
         IN  IF Lower(version) \in FloatingBranches THEN "floating-branch"
             ELSE IF MatchSha(version) THEN "pinned-sha"
             ELSE IF MatchVersionTag(version) THEN "floating-tag"
             ELSE "tagged"

classify_action_reference(ref) ==
    IF ~Contains(ref, "@") THEN "unpinned"
    ELSE LET version == AfterFirst(ref, "@")
         IN  IF Lower(version) \in FloatingBranches THEN "floating-branch"
             ELSE IF MatchVersionTag(version) THEN "floating-tag"
             ELSE IF MatchSha(version) THEN "pinned-sha"
             ELSE "tagged"


(***************************************************************************)
(* The parsed tree of a workflow file, as yaml.safe_load returns it.       *)
(*   file   [t: "error"] (safe_load raises), [t: "null"] (empty document), *)
(*          [t: "list", n] / [t: "str", n] (a root of n elements or        *)
(*          characters), [t: "map", on, permissions, jobs]                 *)
(*   on     [t: "absent" | "null" | "str" | "int" | "list" | "map", items] *)
(*   jobs   [t: "absent" | "null" | "map", entries], entries in document   *)
(*          order, each [name, job]                                        *)
(*   job    [t: "null"] or [t: "dict", permissions, uses, steps]           *)
(*   steps  [t: "absent" | "null" | "list", items]                         *)
(*   step   [t: "str"] or [t: "dict", name, id, uses]                      *)
(*   uses   [t: "absent" | "null" | "str", v]                              *)
(*   name   [has, v]: the key is there, and the (string) value             *)
(***************************************************************************)
NoneStr == <<"N", "o", "n", "e">>

\* str(job["uses"]), str(step["uses"])
StrOfUses(u) == IF u.t = "str" THEN u.v ELSE NoneStr

\* str(item) for an element of the `on` list
StrOfItem(item) == IF item.t = "str" THEN item.s ELSE ToString(item.n)

\* bool(x) of a parsed root, as `or` tests it
Truthy(tree) ==
    CASE tree.t = "null" -> FALSE
      [] tree.t \in {"list", "str"} -> tree.n > 0
      [] tree.t = "map" ->
            \/ tree.on.t # "absent"
            \/ tree.permissions.has
            \/ tree.jobs.t # "absent"
      [] OTHER -> FALSE

EmptyMap ==
    [t |-> "map",
     on |-> [t |-> "absent", items |-> <<>>],
     permissions |-> [has |-> FALSE, empty |-> TRUE],
     jobs |-> [t |-> "absent", entries |-> <<>>]]

\* yaml.safe_load(handle) or {}
load_yaml_file(file) ==
    IF file.t = "error" THEN [raised |-> TRUE, value |-> EmptyMap]
    ELSE [raised |-> FALSE, value |-> IF Truthy(file) THEN file ELSE EmptyMap]

\* collect_triggers(workflow.get("on")): an absent key reads as None.
collect_triggers(raw_on) ==
    CASE raw_on.t \in {"absent", "null"} -> [raised |-> FALSE, value |-> <<>>]
      [] raw_on.t = "str" -> [raised |-> FALSE, value |-> <<raw_on.items[1].s>>]
      [] raw_on.t = "list" ->
            [raised |-> FALSE,
             value |-> [i \in 1..Len(raw_on.items) |-> StrOfItem(raw_on.items[i])]]
      [] raw_on.t = "map" ->
            [raised |-> FALSE,
             value |-> [i \in 1..Len(raw_on.items) |-> raw_on.items[i].s]]
      [] OTHER -> [raised |-> TRUE, value |-> <<>>]   \* no .keys() on a scalar

(***************************************************************************)
(* iter_uses_statements: the pairs the generator yields, in order, and     *)
(* whether it ends by raising.                                             *)
(***************************************************************************)
JobLocation(job_name) == [level |-> "job", job |-> job_name, step |-> ""]
StepLocation(name, job_name) == [level |-> "step", job |-> job_name, step |-> name]

\* The id taken before the name.
StepDisplayNameIdFirst(step) ==
    IF step.id.has /\ step.id.v # "" THEN step.id.v
    ELSE IF step.name.has /\ step.name.v # "" THEN step.name.v
    ELSE "unnamed step"

\* step.get("name") or step.get("id") or "unnamed step"
StepDisplayName(step) ==
    IF step.name.has /\ step.name.v # "" THEN step.name.v
    ELSE IF step.id.has /\ step.id.v # "" THEN step.id.v
    ELSE "unnamed step"

\* job.get("steps", []) or []
StepsOf(job) == IF job.steps.t = "list" THEN job.steps.items ELSE <<>>

RECURSIVE StepStatements(_, _)
StepStatements(job_name, steps) ==
    IF steps = <<>> THEN <<>>
    ELSE LET step == Head(steps)
             here == IF step.t = "dict" /\ step.uses.t # "absent"
                     THEN << [location |-> StepLocation(StepDisplayName(step), job_name),
                              ref |-> StrOfUses(step.uses)] >>
                     ELSE <<>>
         IN  here \o StepStatements(job_name, Tail(steps))

\* The steps' references yielded before the job's own reference.
JobStatementsStepsFirst(entry) ==
    IF entry.job.t # "dict"
    THEN [items |-> <<>>, raised |-> TRUE]
    ELSE LET own == IF entry.job.uses.t # "absent"
                    THEN << [location |-> JobLocation(entry.name),
                             ref |-> StrOfUses(entry.job.uses)] >>
                    ELSE <<>>
         IN  [items |-> StepStatements(entry.name, StepsOf(entry.job)) \o own,
              raised |-> FALSE]

JobStatements(entry) ==
    IF entry.job.t # "dict"
    THEN [items |-> <<>>, raised |-> TRUE]     \* job.get on a non-mapping
    ELSE LET own == IF entry.job.uses.t # "absent"
                    THEN << [location |-> JobLocation(entry.name),
                             ref |-> StrOfUses(entry.job.uses)] >>
                    ELSE <<>>
         IN  [items |-> own \o StepStatements(entry.name, StepsOf(entry.job)),
              raised |-> FALSE]

RECURSIVE JobsStatements(_)
JobsStatements(entries) ==
    IF entries = <<>> THEN [items |-> <<>>, raised |-> FALSE]
    ELSE LET h == JobStatements(Head(entries))
         IN  IF h.raised THEN h
             ELSE LET r == JobsStatements(Tail(entries))
                  IN  [items |-> h.items \o r.items, raised |-> r.raised]

\* jobs = obj.get("jobs", {}); jobs.items()
iter_uses_statements(obj) ==
    CASE obj.jobs.t = "absent" -> [items |-> <<>>, raised |-> FALSE]
      [] obj.jobs.t = "map" -> JobsStatements(obj.jobs.entries)
      [] OTHER -> [items |-> <<>>, raised |-> TRUE]   \* None.items()

(***************************************************************************)
(* WorkflowReport and the rules.  A message is a record of the parts its   *)
(* f-string is built from.                                                 *)
(***************************************************************************)
WorkflowReport(path) ==
    [path |-> path, triggers |-> <<>>, warnings |-> <<>>, infos |-> <<>>]

add_warning(report, message) ==
    [report EXCEPT !.warnings = Append(@, message)]

add_info(report, message) ==
    [report EXCEPT !.infos = Append(@, message)]

RECURSIVE JobPermissionInfos(_, _)
JobPermissionInfos(report, entries) ==
    IF entries = <<>> THEN report
    ELSE LET e == Head(entries)
             r == IF e.job.t = "dict" /\ ~e.job.permissions
                  THEN add_info(report, [kind |-> "job-inherits", job |-> e.name])
                  ELSE report
         IN  JobPermissionInfos(r, Tail(entries))

\* The job rule skipped once the top-level warning is given.
check_permissions_stop_after_warning(report, workflow) ==
    LET entries == IF workflow.jobs.t = "map" THEN workflow.jobs.entries ELSE <<>>
    IN  IF ~workflow.permissions.has
        THEN add_warning(report, [kind |-> "no-top-level-permissions"])
        ELSE JobPermissionInfos(report, entries)

\* The top-level key tested for a value instead of for presence.
check_permissions_by_value(report, workflow) ==
    LET top == IF ~workflow.permissions.has \/ workflow.permissions.empty
               THEN add_warning(report, [kind |-> "no-top-level-permissions"])
               ELSE report
        entries == IF workflow.jobs.t = "map" THEN workflow.jobs.entries ELSE <<>>
    IN  JobPermissionInfos(top, entries)

\* jobs = workflow.get("jobs", {}) or {}
check_permissions(report, workflow) ==
    LET top == IF ~workflow.permissions.has
               THEN add_warning(report, [kind |-> "no-top-level-permissions"])
               ELSE report
        entries == IF workflow.jobs.t = "map" THEN workflow.jobs.entries ELSE <<>>
    IN  JobPermissionInfos(top, entries)

UsesFinding(report, st) ==
    LET classification == classify_action_reference(st.ref)
        msg == [kind |-> classification, location |-> st.location, ref |-> st.ref]
    IN  CASE classification \in {"unpinned", "floating-branch", "floating-tag"} ->
                add_warning(report, msg)
          [] classification = "pinned-sha" -> add_info(report, msg)
          [] OTHER -> report

RECURSIVE UsesFindings(_, _)
UsesFindings(report, items) ==
    IF items = <<>> THEN report
    ELSE UsesFindings(UsesFinding(report, Head(items)), Tail(items))

check_uses(report, workflow) ==
    LET it == iter_uses_statements(workflow)
    IN  [raised |-> it.raised, report |-> UsesFindings(report, it.items)]

\* The test met by `pull_request` as well.
check_pr_target_any_pull_request(report) ==
    IF \E i \in 1..Len(report.triggers) :
          report.triggers[i] \in {"pull_request", "pull_request_target"}
    THEN add_warning(report, [kind |-> "pull-request-target"])
    ELSE report

check_pr_target(report) ==
    IF \E i \in 1..Len(report.triggers) : report.triggers[i] = "pull_request_target"
    THEN add_warning(report, [kind |-> "pull-request-target"])
    ELSE report

\* analyze_workflow(path): the report it returns, or the fact that it raises
\* (with the report as it stood when the exception left the function).
analyze_workflow(path, file) ==
    LET loaded == load_yaml_file(file)
        workflow == loaded.value
        r0 == WorkflowReport(path)
    IN  IF loaded.raised THEN [raised |-> TRUE, at |-> "load", report |-> r0]
        ELSE IF workflow.t # "map"           \* workflow.get on a list or a str
        THEN [raised |-> TRUE, at |-> "get", report |-> r0]
        ELSE LET trg == collect_triggers(workflow.on)
                 r1 == [r0 EXCEPT !.triggers = trg.value]
             IN  IF trg.raised THEN [raised |-> TRUE, at |-> "triggers", report |-> r0]
                 ELSE LET r2 == check_permissions(r1, workflow)
                          u == check_uses(r2, workflow)
                      IN  IF u.raised
                          THEN [raised |-> TRUE, at |-> "uses", report |-> u.report]
                          ELSE [raised |-> FALSE, at |-> "",
                                report |-> check_pr_target(u.report)]


(***************************************************************************)
(* WorkflowReport.render: the lines of the text, in order.                 *)
(***************************************************************************)
\* The order of str on the trigger names of the model.
TriggerRank(name) ==
    CASE name = "5" -> 1
      [] name = "pull_request" -> 2
      [] name = "pull_request_target" -> 3
      [] name = "push" -> 4
      [] OTHER -> 5

RECURSIVE InsertSorted(_, _)
InsertSorted(sorted, name) ==
    IF sorted = <<>> THEN <<name>>
    ELSE IF TriggerRank(name) < TriggerRank(Head(sorted))
         THEN <<name>> \o sorted
         ELSE <<Head(sorted)>> \o InsertSorted(Tail(sorted), name)

RECURSIVE SortedTriggers(_)
SortedTriggers(triggers) ==
    IF triggers = <<>> THEN <<>>
    ELSE InsertSorted(SortedTriggers(SubSeq(triggers, 1, Len(triggers) - 1)),
                      triggers[Len(triggers)])

Bullets(messages) == [i \in 1..Len(messages) |-> [k |-> "bullet", msg |-> messages[i]]]

\* The closing line kept for reports that have no finding at all.
render_closing_line_only_when_empty(report) ==
    <<[k |-> "header", path |-> report.path]>>
    \o (IF report.triggers # <<>>
        THEN <<[k |-> "triggers", names |-> SortedTriggers(report.triggers)]>>
        ELSE <<>>)
    \o (IF report.infos # <<>>
        THEN <<[k |-> "info-title"]>> \o Bullets(report.infos)
        ELSE <<>>)
    \o (IF report.warnings # <<>>
        THEN <<[k |-> "warnings-title"]>> \o Bullets(report.warnings)
        ELSE <<>>)
    \o (IF report.warnings = <<>> /\ report.infos = <<>>
        THEN <<[k |-> "no-warnings"]>> ELSE <<>>)

render(report) ==
    <<[k |-> "header", path |-> report.path]>>
    \o (IF report.triggers # <<>>
        THEN <<[k |-> "triggers", names |-> SortedTriggers(report.triggers)]>>
        ELSE <<>>)
    \o (IF report.infos # <<>>
        THEN <<[k |-> "info-title"]>> \o Bullets(report.infos)
        ELSE <<>>)
    \o (IF report.warnings # <<>>
        THEN <<[k |-> "warnings-title"]>> \o Bullets(report.warnings)
        ELSE <<>>)
    \o (IF report.warnings = <<>> THEN <<[k |-> "no-warnings"]>> ELSE <<>>)

(***************************************************************************)
(* find_workflows: file names are strings, ordered as Python orders them.  *)
(***************************************************************************)
Ord(c) ==
    CASE c = "." -> 46 [] c = "a" -> 97 [] c = "b" -> 98 [] c = "c" -> 99
      [] c = "l" -> 108 [] c = "m" -> 109 [] c = "t" -> 116 [] c = "x" -> 120
      [] c = "y" -> 121 [] OTHER -> 0

RECURSIVE StrLess(_, _)
StrLess(a, b) ==
    IF b = <<>> THEN FALSE
    ELSE IF a = <<>> THEN TRUE
    ELSE IF Head(a) = Head(b) THEN StrLess(Tail(a), Tail(b))
    ELSE Ord(Head(a)) < Ord(Head(b))

RECURSIVE Sorted(_)
Sorted(names) ==
    IF names = {} THEN <<>>
    ELSE LET least == CHOOSE n \in names : \A o \in names \ {n} : StrLess(n, o)
         IN  <<least>> \o Sorted(names \ {least})

EndsWith(s, suffix) ==
    /\ Len(s) >= Len(suffix)
    /\ SubSeq(s, Len(s) - Len(suffix) + 1, Len(s)) = suffix

\* base.glob("*.yml"), base.glob("*.yaml")
Glob(names, suffix) == {n \in names : EndsWith(n, suffix)}

YmlSuffix == <<".", "y", "m", "l">>
YamlSuffix == <<".", "y", "a", "m", "l">>

\* sorted(base.glob("*.yml")) + sorted(base.glob("*.yaml"))
find_workflows(names) ==
    Sorted(Glob(names, YmlSuffix)) \o Sorted(Glob(names, YamlSuffix))


(***************************************************************************)
(* The inputs of the model: action references, parsed trees, directories.  *)
(***************************************************************************)
RECURSIVE SeqsUpTo(_, _)
SeqsUpTo(S, n) ==
    IF n = 0 THEN {<<>>}
    ELSE LET shorter == SeqsUpTo(S, n - 1)
         IN  shorter \cup {Append(q, x) : q \in shorter, x \in S}

OwnerRepo == <<"o", "/", "r">>
LocalAction == <<".", "/", "x">>
DockerImage == <<"d", "o", "c", "k", "e", "r", ":", "/", "/", "i">>

VersionAlphabet == {"v", "1", ".", "a", "@"}

LongVersions ==
    { <<"m", "a", "i", "n">>, <<"M", "a", "i", "n">>, <<"M", "A", "S", "T", "E", "R">>,
      <<"m", "a", "s", "t", "e", "r">>, <<"l", "a", "t", "e", "s", "t">>,
      <<"e", "d", "g", "e">>, <<"E", "D", "G", "E">>, <<"e", "d", "g", "e", "s">>,
      <<"m", "a", "i", "n", "@", "1">>, <<"r", "-", "1">>, <<"v", "1", ".", "2", ".", "3">>,
      <<"s", "h", "a", ":", "a", "b">>,
      Rep("1", 6), Rep("1", 7), Rep("1", 40), Rep("1", 41),
      Rep("a", 6), Rep("a", 7), Rep("F", 7), Rep("a", 40), Rep("a", 41),
      Rep("a", 6) \o <<"g">>, Rep("a", 6) \o <<".">>, <<"v">> \o Rep("a", 7),
      <<"v">> \o Rep("1", 7), Rep("1", 3) \o <<".">> \o Rep("1", 3) }

Versions == SeqsUpTo(VersionAlphabet, MaxVerLen) \cup LongVersions

Refs ==
    {OwnerRepo, LocalAction, DockerImage}
    \cup {OwnerRepo \o <<"@">> \o v : v \in Versions}
    \cup {p \o <<"@">> \o v : p \in {LocalAction, DockerImage}, v \in LongVersions}

\* One reference of each kind.
SomeRefs ==
    { OwnerRepo, OwnerRepo \o <<"@", "m", "a", "i", "n">>, OwnerRepo \o <<"@", "v", "1">>,
      OwnerRepo \o <<"@">> \o Rep("a", 7), OwnerRepo \o <<"@", "r", "-", "1">>,
      LocalAction, DockerImage }

NoKey == [has |-> FALSE, v |-> ""]
Key(v) == [has |-> TRUE, v |-> v]
NoUses == [t |-> "absent", v |-> <<>>]
NullUses == [t |-> "null", v |-> <<>>]
Uses(ref) == [t |-> "str", v |-> ref]
Step(name, id, uses) == [t |-> "dict", name |-> name, id |-> id, uses |-> uses]
Steps(items) == [t |-> "list", items |-> items]
NoSteps == [t |-> "absent", items |-> <<>>]
NullSteps == [t |-> "null", items |-> <<>>]
Job(permissions, uses, steps) ==
    [t |-> "dict", permissions |-> permissions, uses |-> uses, steps |-> steps]
NullJob == [t |-> "null"]
JobNames == <<"build", "test", "deploy", "docs">>
Jobs(jobs) ==
    [t |-> "map", entries |-> [i \in 1..Len(jobs) |-> [name |-> JobNames[i], job |-> jobs[i]]]]
NoJobs == [t |-> "absent", entries |-> <<>>]
NullJobs == [t |-> "null", entries |-> <<>>]
StrItem(s) == [t |-> "str", s |-> s]
IntItem(n) == [t |-> "int", n |-> n]
On(t, items) == [t |-> t, items |-> items]
NoPermissions == [has |-> FALSE, empty |-> TRUE]
Permissions == {NoPermissions, [has |-> TRUE, empty |-> TRUE], [has |-> TRUE, empty |-> FALSE]}
Workflow(on, permissions, jobs) ==
    [t |-> "map", on |-> on, permissions |-> permissions, jobs |-> jobs]

OnPush == On("str", <<StrItem("push")>>)

StepSet ==
    { [t |-> "str"],
      Step(Key("compile"), NoKey, NoUses),
      Step(Key("fetch"), NoKey, NullUses),
      Step(NoKey, Key("s1"), Uses(OwnerRepo)),
      Step(Key(""), Key("s1"), Uses(OwnerRepo)),
      Step(Key(""), NoKey, Uses(OwnerRepo)),
      Step(NoKey, NoKey, Uses(OwnerRepo)) }
    \cup {Step(Key("checkout"), Key("s2"), Uses(r)) : r \in SomeRefs}

JobSet ==
    {NullJob}
    \cup { Job(p, u, s) :
             p \in BOOLEAN,
             u \in {NoUses, Uses(OwnerRepo \o <<"@", "m", "a", "i", "n">>)},
             s \in { NoSteps, NullSteps,
                     Steps(<<Step(Key("setup"), NoKey, Uses(OwnerRepo \o <<"@", "v", "1">>))>>),
                     Steps(<<Step(Key("checkout"), NoKey,
                                  Uses(OwnerRepo \o <<"@">> \o Rep("a", 7)))>>) } }

OnSet ==
    { On("absent", <<>>), On("null", <<>>), OnPush,
      On("str", <<StrItem("pull_request_target")>>),
      On("int", <<IntItem(5)>>),
      On("list", <<>>),
      On("list", <<StrItem("push"), StrItem("pull_request_target")>>),
      On("list", <<StrItem("push"), IntItem(5), StrItem("push")>>),
      On("map", <<StrItem("push"), StrItem("pull_request")>>),
      On("map", <<StrItem("pull_request_target")>>) }

RootTrees ==
    { [t |-> "error"], [t |-> "null"], [t |-> "list", n |-> 0], [t |-> "list", n |-> 1],
      [t |-> "str", n |-> 0], [t |-> "str", n |-> 1] }

StepTrees ==
    { Workflow(OnPush, NoPermissions, Jobs(<<Job(FALSE, NoUses, Steps(q))>>)) :
        q \in SeqsUpTo(StepSet, MaxSteps) }

JobTrees ==
    { Workflow(OnPush, p, Jobs(q)) : p \in Permissions, q \in SeqsUpTo(JobSet, MaxJobs) }

OnTrees ==
    { Workflow(o, p, j) :
        o \in OnSet, p \in Permissions,
        j \in { NoJobs, NullJobs, Jobs(<<>>),
                Jobs(<<Job(FALSE, NoUses, Steps(<<Step(Key("compile"), NoKey, NoUses)>>))>>),
                Jobs(<<Job(TRUE, NoUses,
                           Steps(<<Step(Key("checkout"), NoKey,
                                        Uses(OwnerRepo \o <<"@">> \o Rep("a", 7)))>>))>>) } }

RefTrees ==
    { Workflow(OnPush, NoPermissions,
               Jobs(<<Job(TRUE, NoUses, Steps(<<Step(Key("checkout"), NoKey, Uses(r))>>))>>)) :
        r \in Refs }
    \cup { Workflow(OnPush, NoPermissions, Jobs(<<Job(TRUE, Uses(r), NoSteps)>>)) : r \in Refs }

Trees == RootTrees \cup StepTrees \cup JobTrees \cup OnTrees \cup RefTrees

\* The trees of the directories of several files.
FewTrees ==
    { [t |-> "error"], [t |-> "null"], [t |-> "list", n |-> 1],
      Workflow(OnPush, NoPermissions, NullJobs),
      Workflow(OnPush, NoPermissions,
               Jobs(<<Job(FALSE, NoUses, Steps(<<Step(Key("checkout"), NoKey,
                                                      Uses(OwnerRepo))>>))>>)),
      Workflow(On("str", <<StrItem("pull_request_target")>>), [has |-> TRUE, empty |-> TRUE],
               Jobs(<<Job(TRUE, Uses(OwnerRepo \o <<"@", "r", "-", "1">>), NoSteps)>>)) }

NamePool ==
    { <<"a", ".", "y", "a", "m", "l">>, <<"a", ".", "y", "m", "l">>,
      <<"b", ".", "y", "m", "l">>, <<"c", ".", "y", "a", "m", "l">>,
      <<"c", ".", "t", "x", "t">> }

OneName == <<"b", ".", "y", "m", "l">>

(***************************************************************************)
(* main.                                                                   *)
(***************************************************************************)
NoStatus == [returned |-> FALSE, code |-> 0]
Returned(code) == [returned |-> TRUE, code |-> code]

Init ==
    /\ \/ /\ dirExists = FALSE
          /\ dir = <<>>
       \/ /\ dirExists = TRUE
          /\ \E names \in SUBSET NamePool :
                /\ Cardinality(names) <= MaxFiles
                /\ dir \in [names -> FewTrees]
       \/ /\ dirExists = TRUE
          /\ dir \in [{OneName} -> Trees]
    /\ pc = "start"
    /\ workflow_paths = <<>>
    /\ reports = <<>>
    /\ stdout = <<>>
    /\ stderr = <<>>
    /\ status = NoStatus

\* The message of the missing directory printed on stdout.
MainNotFoundOnStdout ==
    /\ pc = "start"
    /\ ~dirExists
    /\ stdout' = Append(stdout, [k |-> "not-found"])
    /\ status' = Returned(1)
    /\ pc' = "done"
    /\ UNCHANGED <<dirExists, dir, workflow_paths, reports, stderr>>

\* find_workflows raises FileNotFoundError: the message goes to stderr, return 1
MainNotFound ==
    /\ pc = "start"
    /\ ~dirExists
    /\ stderr' = Append(stderr, [k |-> "not-found"])
    /\ status' = Returned(1)
    /\ pc' = "done"
    /\ UNCHANGED <<dirExists, dir, workflow_paths, reports, stdout>>

\* if not workflow_paths: print, return 0
MainNoWorkflows ==
    /\ pc = "start"
    /\ dirExists
    /\ find_workflows(DOMAIN dir) = <<>>
    /\ stdout' = Append(stdout, [k |-> "no-workflows"])
    /\ status' = Returned(0)
    /\ pc' = "done"
    /\ UNCHANGED <<dirExists, dir, workflow_paths, reports, stderr>>

MainFound ==
    /\ pc = "start"
    /\ dirExists
    /\ find_workflows(DOMAIN dir) # <<>>
    /\ workflow_paths' = find_workflows(DOMAIN dir)
    /\ pc' = "analyze"
    /\ UNCHANGED <<dirExists, dir, reports, stdout, stderr, status>>

NextPath == workflow_paths[Len(reports) + 1]

\* one element of [analyze_workflow(path) for path in workflow_paths]
AnalyzeOk ==
    /\ pc = "analyze"
    /\ LET a == analyze_workflow(NextPath, dir[NextPath])
       IN  /\ ~a.raised
           /\ reports' = Append(reports, a.report)
    /\ pc' = IF Len(reports') = Len(workflow_paths) THEN "print" ELSE "analyze"
    /\ UNCHANGED <<dirExists, dir, workflow_paths, stdout, stderr, status>>

\* The exception caught per file, the file reported empty, the run continued.
AnalyzeRaiseCaught ==
    /\ pc = "analyze"
    /\ analyze_workflow(NextPath, dir[NextPath]).raised
    /\ reports' = Append(reports, WorkflowReport(NextPath))
    /\ pc' = IF Len(reports') = Len(workflow_paths) THEN "print" ELSE "analyze"
    /\ UNCHANGED <<dirExists, dir, workflow_paths, stdout, stderr, status>>

\* analyze_workflow raises: nothing in main catches it, the list is never bound
AnalyzeRaise ==
    /\ pc = "analyze"
    /\ analyze_workflow(NextPath, dir[NextPath]).raised
    /\ stderr' = Append(stderr, [k |-> "traceback"])
    /\ pc' = "raised"
    /\ UNCHANGED <<dirExists, dir, workflow_paths, reports, stdout, status>>

Printed == Cardinality({i \in 1..Len(stdout) : stdout[i].k = "blank"})

\* one turn of the loop: print(report.render()); print()
PrintReport ==
    /\ pc = "print"
    /\ Printed < Len(reports)
    /\ stdout' = stdout \o render(reports[Printed + 1]) \o <<[k |-> "blank"]>>
    /\ UNCHANGED <<dirExists, dir, pc, workflow_paths, reports, stderr, status>>

MainReturn ==
    /\ pc = "print"
    /\ Printed = Len(reports)
    /\ status' = Returned(0)
    /\ pc' = "done"
    /\ UNCHANGED <<dirExists, dir, workflow_paths, reports, stdout, stderr>>

Next ==
    \/ MainNotFound
    \/ MainNoWorkflows
    \/ MainFound
    \/ AnalyzeOk
    \/ AnalyzeRaise
    \/ PrintReport
    \/ MainReturn

Spec == Init /\ [][Next]_vars


(***************************************************************************)
(* What the properties speak of.                                           *)
(***************************************************************************)
Range(q) == {q[i] : i \in 1..Len(q)}

Discovered == {n \in DOMAIN dir : EndsWith(n, YmlSuffix) \/ EndsWith(n, YamlSuffix)}

\* The parsed tree the i-th report was made from.
TreeOf(i) == dir[workflow_paths[i]]

Ended == pc \in {"done", "raised"}

\* Every string that stands after a `uses` key of the tree.
UsesOfJob(job) ==
    IF job.t # "dict" THEN {}
    ELSE (IF job.uses.t = "absent" THEN {} ELSE {StrOfUses(job.uses)})
         \cup (IF job.steps.t # "list" THEN {}
               ELSE { StrOfUses(st.uses) :
                        st \in {x \in Range(job.steps.items) :
                                  x.t = "dict" /\ x.uses.t # "absent"} })

UsesOfTree(tree) ==
    IF tree.t # "map" \/ tree.jobs.t # "map" THEN {}
    ELSE UNION {UsesOfJob(e.job) : e \in Range(tree.jobs.entries)}

UsesInDir == UNION {UsesOfTree(dir[n]) : n \in DOMAIN dir}

\* The rules of the classifier, stated on positions of the string.
CasePairs ==
    { <<"A", "a">>, <<"D", "d">>, <<"E", "e">>, <<"G", "g">>, <<"I", "i">>, <<"L", "l">>,
      <<"M", "m">>, <<"N", "n">>, <<"R", "r">>, <<"S", "s">>, <<"T", "t">> }

SameLetter(c, d) == c = d \/ <<c, d>> \in CasePairs \/ <<d, c>> \in CasePairs

EqualIgnoringCase(a, b) ==
    /\ Len(a) = Len(b)
    /\ \A i \in 1..Len(a) : SameLetter(a[i], b[i])

FirstAt(ref) == CHOOSE i \in 1..Len(ref) : ref[i] = "@" /\ \A j \in 1..(i - 1) : ref[j] # "@"

VersionOf(ref) == SubSeq(ref, FirstAt(ref) + 1, Len(ref))

\* Dot-separated groups of digits: digits and dots only, a digit at both ends,
\* no two dots in a row.
DigitGroups(s) ==
    /\ s # <<>>
    /\ \A i \in 1..Len(s) : s[i] \in Digits \cup {"."}
    /\ s[1] # "." /\ s[Len(s)] # "."
    /\ \A i \in 1..(Len(s) - 1) : ~(s[i] = "." /\ s[i + 1] = ".")

VersionNumber(v) ==
    \/ DigitGroups(v)
    \/ Len(v) > 1 /\ v[1] = "v" /\ DigitGroups(SubSeq(v, 2, Len(v)))

HexString(v) == Len(v) \in 7..40 /\ \A i \in 1..Len(v) : v[i] \in HexChars

RuleClass(ref) ==
    IF \A i \in 1..Len(ref) : ref[i] # "@" THEN "unpinned"
    ELSE LET v == VersionOf(ref)
         IN  CASE \E b \in FloatingBranches : EqualIgnoringCase(v, b) -> "floating-branch"
               [] OTHER ->
                    IF VersionNumber(v) THEN "floating-tag"
                    ELSE IF HexString(v) THEN "pinned-sha"
                    ELSE "tagged"

AllDigits(v) == v # <<>> /\ \A i \in 1..Len(v) : v[i] \in Digits

\* C1: classify_action_reference gives every reference exactly one of the five
\* classifications, the one the ordered rules give (no "@": unpinned; else on the
\* text after the first "@": a floating branch name in any case, then a version
\* number, then 7 to 40 hexadecimal characters, else tagged); an all-digit
\* version of 7 to 40 characters is floating-tag.
C1_ClassifyFollowsRules ==
    \A ref \in UsesInDir :
        /\ classify_action_reference(ref) \in Classifications
        /\ classify_action_reference(ref) = RuleClass(ref)
        /\ (Contains(ref, "@") /\ AllDigits(VersionOf(ref)) /\ Len(VersionOf(ref)) \in 7..40)
              => classify_action_reference(ref) = "floating-tag"

\* A report that warns of a floating tag for a version of seven digits.
C1_Witness ==
    \E i \in 1..Len(reports) : \E w \in Range(reports[i].warnings) :
        /\ w.kind = "floating-tag"
        /\ w.ref = OwnerRepo \o <<"@">> \o Rep("1", 7)


HeaderPaths(lines) ==
    LET headers == SelectSeq(lines, LAMBDA l : l.k = "header")
    IN  [i \in 1..Len(headers) |-> headers[i].path]

Analysis(n) == analyze_workflow(n, dir[n])

\* C2: when one discovered file fails to parse, every other discovered file
\* is still analysed and its report is printed.
C2_ParseFailureIsolated ==
    ( /\ Ended
      /\ \E n \in Discovered : dir[n].t = "error"
      /\ \A n \in Discovered : dir[n].t # "error" => ~Analysis(n).raised )
    => \A n \in Discovered : dir[n].t # "error" => n \in Range(HeaderPaths(stdout))

\* C3: find_workflows returns the discovered files as one sorted list, and
\* main prints one report per discovered file, each followed by a blank line,
\* in that order.
C3_ReportsInSortedOrder ==
    /\ (pc # "start" /\ dirExists /\ Discovered # {})
          => workflow_paths = Sorted(Discovered)
    /\ (pc = "done" /\ status = Returned(0) /\ Discovered # {})
          => /\ HeaderPaths(stdout) = Sorted(Discovered)
             /\ stdout[Len(stdout)].k = "blank"
             /\ \A i \in 2..Len(stdout) : stdout[i].k = "header" => stdout[i - 1].k = "blank"

UsesKinds == {"unpinned", "floating-branch", "floating-tag", "pinned-sha"}

\* C4: a root that is empty or not a mapping is analysed without error, with
\* no trigger and no job or uses finding.
C4_NonMappingRootNormalized ==
    /\ pc = "raised" => dir[NextPath].t \notin {"null", "list", "str"}
    /\ \A i \in 1..Len(reports) :
          TreeOf(i).t \in {"null", "list", "str"}
             => /\ reports[i].triggers = <<>>
                /\ reports[i].infos = <<>>
                /\ \A w \in Range(reports[i].warnings) : w.kind = "no-top-level-permissions"

\* The trigger set the `on` field stands for.
TriggersOfOn(on) ==
    CASE on.t = "str" -> {on.items[1].s}
      [] on.t = "int" -> {ToString(on.items[1].n)}
      [] on.t = "list" ->
            {IF x.t = "str" THEN x.s ELSE ToString(x.n) : x \in Range(on.items)}
      [] on.t = "map" -> {x.s : x \in Range(on.items)}
      [] OTHER -> {}

\* C5: trigger extraction never fails, and gives the empty set for an absent
\* `on`, the string form of a scalar, the string forms of a sequence's
\* elements, the keys of a mapping.
C5_TriggersOfEveryShape ==
    /\ pc = "raised" => Analysis(NextPath).at # "triggers"
    /\ \A i \in 1..Len(reports) :
          TreeOf(i).t = "map" => Range(reports[i].triggers) = TriggersOfOn(TreeOf(i).on)


(***************************************************************************)
(* The `uses` references of a tree by position: <<j, 0>> is job j's own    *)
(* reference, <<j, k>> the reference of its k-th step.                     *)
(***************************************************************************)
EntriesOf(tree) == IF tree.t = "map" /\ tree.jobs.t = "map" THEN tree.jobs.entries ELSE <<>>

StepItems(job) == IF job.t = "dict" /\ job.steps.t = "list" THEN job.steps.items ELSE <<>>

UsesPositions(tree) ==
    { <<j, 0>> : j \in {x \in 1..Len(EntriesOf(tree)) :
                          /\ EntriesOf(tree)[x].job.t = "dict"
                          /\ EntriesOf(tree)[x].job.uses.t # "absent"} }
    \cup UNION { { <<j, k>> : k \in {y \in 1..Len(StepItems(EntriesOf(tree)[j].job)) :
                                       LET st == StepItems(EntriesOf(tree)[j].job)[y]
                                       IN  st.t = "dict" /\ st.uses.t # "absent"} } :
                   j \in 1..Len(EntriesOf(tree)) }

Before(a, b) == a[1] < b[1] \/ (a[1] = b[1] /\ a[2] < b[2])

RECURSIVE InDocumentOrder(_)
InDocumentOrder(positions) ==
    IF positions = {} THEN <<>>
    ELSE LET first == CHOOSE a \in positions : \A b \in positions \ {a} : Before(a, b)
         IN  <<first>> \o InDocumentOrder(positions \ {first})

UsesValueAt(tree, pos) ==
    LET job == EntriesOf(tree)[pos[1]].job
        u == IF pos[2] = 0 THEN job.uses ELSE StepItems(job)[pos[2]].uses
    IN  IF u.t = "str" THEN u.v ELSE NoneStr

\* The findings the uses rule owes a tree: one per reference that is not
\* tagged, in document order, with its classification.
UsesOwed(tree, classes) ==
    LET all == InDocumentOrder(UsesPositions(tree))
        kept == SelectSeq(all, LAMBDA pos : RuleClass(UsesValueAt(tree, pos)) \in classes)
    IN  [i \in 1..Len(kept) |->
            [kind |-> RuleClass(UsesValueAt(tree, kept[i])),
             level |-> IF kept[i][2] = 0 THEN "job" ELSE "step",
             job |-> EntriesOf(tree)[kept[i][1]].name,
             ref |-> UsesValueAt(tree, kept[i])]]

UsesGiven(messages) ==
    LET given == SelectSeq(messages, LAMBDA m : m.kind \in UsesKinds)
    IN  [i \in 1..Len(given) |->
            [kind |-> given[i].kind, level |-> given[i].location.level,
             job |-> given[i].location.job, ref |-> given[i].ref]]

\* C6: the uses rule visits the job-level and step-level references in
\* document order (a job's own reference before its steps) and gives one
\* warning per unpinned, floating-branch or floating-tag reference, one info
\* per pinned-sha reference, nothing for a tagged one or a step without uses.
C6_UsesRuleInDocumentOrder ==
    \A i \in 1..Len(reports) :
        /\ UsesGiven(reports[i].warnings)
              = UsesOwed(TreeOf(i), {"unpinned", "floating-branch", "floating-tag"})
        /\ UsesGiven(reports[i].infos) = UsesOwed(TreeOf(i), {"pinned-sha"})

\* A report in which a job's own floating reference is warned of before its
\* step's floating tag, and a later job has a step pinned to a commit.
C6_Witness ==
    \E i \in 1..Len(reports) :
        LET w == UsesGiven(reports[i].warnings)
        IN  /\ Len(w) >= 2
            /\ w[1].level = "job" /\ w[1].kind = "floating-branch"
            /\ w[2].level = "step" /\ w[2].kind = "floating-tag" /\ w[2].job = w[1].job
            /\ \E m \in Range(UsesGiven(reports[i].infos)) : m.job # w[1].job

StartsWith(s, prefix) == Len(s) >= Len(prefix) /\ SubSeq(s, 1, Len(prefix)) = prefix

LocalOrDocker(ref) ==
    \/ StartsWith(ref, <<".", "/">>)
    \/ StartsWith(ref, <<"d", "o", "c", "k", "e", "r", ":", "/", "/">>)

\* C7: a local path reference or a docker reference gets no pinning finding.
C7_LocalAndDockerOpaque ==
    \A i \in 1..Len(reports) :
        \A m \in Range(reports[i].warnings) \cup Range(reports[i].infos) :
            m.kind \in UsesKinds => ~LocalOrDocker(m.ref)

ZeroJobs(tree) ==
    /\ tree.t = "map"
    /\ tree.jobs.t \in {"absent", "null"} \/ (tree.jobs.t = "map" /\ tree.jobs.entries = <<>>)

CountOf(messages, kind) == Len(SelectSeq(messages, LAMBDA m : m.kind = kind))

\* C8: a document with zero jobs (the key absent, empty or without a value) is
\* analysed without error, with no job-permission and no uses finding, and
\* with the top-level warning when `permissions` is absent.
C8_ZeroJobsAnalysed ==
    /\ pc = "raised" => ~(ZeroJobs(dir[NextPath]) /\ Analysis(NextPath).at = "uses")
    /\ \A i \in 1..Len(reports) :
          ZeroJobs(TreeOf(i))
             => /\ reports[i].infos = <<>>
                /\ UsesGiven(reports[i].warnings) = <<>>
                /\ ~TreeOf(i).permissions.has
                      => CountOf(reports[i].warnings, "no-top-level-permissions") = 1

\* C9: the job rule gives one info naming the job for every job without a
\* `permissions` key, none for a job with it, whatever the top-level rule did.
C9_JobPermissionInfos ==
    \A i \in 1..Len(reports) :
        LET entries == EntriesOf(TreeOf(i))
            lacking == SelectSeq(entries, LAMBDA e : ~e.job.permissions)
            given == SelectSeq(reports[i].infos, LAMBDA m : m.kind = "job-inherits")
        IN  given = [k \in 1..Len(lacking) |-> [kind |-> "job-inherits", job |-> lacking[k].name]]

\* A report with the top-level warning and an info for the second of two jobs.
C9_Witness ==
    \E i \in 1..Len(reports) :
        /\ Len(EntriesOf(TreeOf(i))) = 2
        /\ CountOf(reports[i].warnings, "no-top-level-permissions") = 1
        /\ SelectSeq(reports[i].infos, LAMBDA m : m.kind = "job-inherits")
              = <<[kind |-> "job-inherits", job |-> JobNames[2]]>>

\* C10: the top-level rule gives one warning exactly when the document has no
\* top-level `permissions` key, whatever the value of the key and whatever
\* the jobs declare.
C10_TopLevelPermissionsWarning ==
    \A i \in 1..Len(reports) :
        /\ CountOf(reports[i].infos, "no-top-level-permissions") = 0
        /\ CountOf(reports[i].warnings, "no-top-level-permissions")
              = IF TreeOf(i).t = "map" /\ TreeOf(i).permissions.has THEN 0 ELSE 1

\* A report without the warning for `permissions: {}` over a job that sets none.
C10_Witness ==
    \E i \in 1..Len(reports) :
        /\ TreeOf(i).t = "map"
        /\ TreeOf(i).permissions = [has |-> TRUE, empty |-> TRUE]
        /\ \E e \in Range(EntriesOf(TreeOf(i))) : ~e.job.permissions
        /\ CountOf(reports[i].warnings, "no-top-level-permissions") = 0


TriggersOfTree(tree) == IF tree.t = "map" THEN TriggersOfOn(tree.on) ELSE {}

\* C11: the elevated-trigger rule gives one warning exactly when the trigger
\* set of the document holds pull_request_target, whatever the uses rule found;
\* a document without an `on` key has no trigger and never gets the warning.
C11_ElevatedTriggerWarning ==
    \A i \in 1..Len(reports) :
        /\ CountOf(reports[i].infos, "pull-request-target") = 0
        /\ CountOf(reports[i].warnings, "pull-request-target")
              = IF "pull_request_target" \in TriggersOfTree(TreeOf(i)) THEN 1 ELSE 0
        /\ (TreeOf(i).t = "map" /\ TreeOf(i).on.t = "absent")
              => /\ reports[i].triggers = <<>>
                 /\ CountOf(reports[i].warnings, "pull-request-target") = 0

\* A report with the warning although its only reference is pinned to a commit.
C11_Witness ==
    \E i \in 1..Len(reports) :
        /\ CountOf(reports[i].warnings, "pull-request-target") = 1
        /\ UsesGiven(reports[i].warnings) = <<>>
        /\ Len(UsesGiven(reports[i].infos)) = 1
        /\ UsesGiven(reports[i].infos)[1].kind = "pinned-sha"


\* C12: when the directory exists and every discovered file parses, the exit
\* status is 0 whatever the warnings; with no discovered file only the
\* no-workflows message is printed.
C12_ExitZeroWhenAllParse ==
    (Ended /\ dirExists /\ \A n \in Discovered : dir[n].t # "error")
       => /\ status = Returned(0)
          /\ Discovered = {} => stdout = <<[k |-> "no-workflows"]>>

\* C13: when the directory does not exist, main writes the not-found message
\* to stderr, returns 1, analyses no file and prints nothing on stdout.
C13_MissingDirectory ==
    ~dirExists
       => /\ pc \in {"start", "done"}
          /\ reports = <<>>
          /\ stdout = <<>>
          /\ pc = "done" => (status = Returned(1) /\ stderr = <<[k |-> "not-found"]>>)

\* The run over a missing directory has ended.
C13_Witness == ~dirExists /\ pc = "done" /\ status = Returned(1)


(***************************************************************************)
(* The text printed for the n-th report: the lines of stdout between the   *)
(* blank lines n - 1 and n.                                                *)
(***************************************************************************)
BlanksUpTo(i) == Cardinality({j \in 1..i : stdout[j].k = "blank"})

BlankAt(n) == CHOOSE i \in 1..Len(stdout) : stdout[i].k = "blank" /\ BlanksUpTo(i) = n

PrintedText(n) ==
    SubSeq(stdout, (IF n = 1 THEN 1 ELSE BlankAt(n - 1) + 1), BlankAt(n) - 1)

Places(text, k) == {i \in 1..Len(text) : text[i].k = k}

\* The messages of the bullets that follow line `title` of the text are `messages`.
BlockIs(text, title, messages) ==
    /\ \A j \in 1..Len(messages) :
          /\ title + j <= Len(text)
          /\ text[title + j] = [k |-> "bullet", msg |-> messages[j]]
    /\ title + Len(messages) < Len(text) => text[title + Len(messages) + 1].k # "bullet"

\* C14: the rendered report lists the infos in the order added and the
\* warnings in the order added, the Info block (only when there is an info)
\* before the Warnings block (only when there is a warning), and holds the
\* line "No warnings detected." exactly when the report has no warning.
C14_RenderBlocks ==
    \A n \in 1..BlanksUpTo(Len(stdout)) :
        LET text == PrintedText(n)
            r == reports[n]
            infoAt == Places(text, "info-title")
            warnAt == Places(text, "warnings-title")
        IN  /\ Cardinality(infoAt) = IF r.infos # <<>> THEN 1 ELSE 0
            /\ Cardinality(warnAt) = IF r.warnings # <<>> THEN 1 ELSE 0
            /\ \A i \in infoAt : BlockIs(text, i, r.infos)
            /\ \A w \in warnAt : BlockIs(text, w, r.warnings)
            /\ \A i \in infoAt : \A w \in warnAt : i < w
            /\ Cardinality(Places(text, "bullet")) = Len(r.infos) + Len(r.warnings)
            /\ (Places(text, "no-warnings") # {}) <=> (r.warnings = <<>>)

\* A printed report with two infos and no warning, hence with the closing line.
C14_Witness ==
    \E n \in 1..BlanksUpTo(Len(stdout)) :
        /\ Len(reports[n].infos) = 2
        /\ reports[n].infos[1] # reports[n].infos[2]
        /\ reports[n].warnings = <<>>
        /\ Places(PrintedText(n), "no-warnings") # {}


(***************************************************************************)
(* The location a message names: the parts of its text that are a job name *)
(* or a step display name.                                                 *)
(***************************************************************************)
NamesJob(m) == "job" \in DOMAIN m \/ "location" \in DOMAIN m

JobNamed(m) == IF "job" \in DOMAIN m THEN m.job ELSE m.location.job

Findings(report) == Range(report.warnings) \cup Range(report.infos)

\* C15: every finding of a report names the job that triggered it, and a
\* step-level finding also the step display name.
C15_EveryFindingNamesItsJob ==
    \A i \in 1..Len(reports) : \A m \in Findings(reports[i]) :
        /\ NamesJob(m)
        /\ JobNamed(m) \in {e.name : e \in Range(EntriesOf(TreeOf(i)))}

\* The display name of a step: its non-empty name, else its non-empty id,
\* else "unnamed step".
DisplayNameOwed(step) ==
    CASE step.name.has /\ step.name.v # "" -> step.name.v
      [] ~(step.name.has /\ step.name.v # "") /\ step.id.has /\ step.id.v # "" -> step.id.v
      [] OTHER -> "unnamed step"

LocationAt(tree, pos) ==
    [level |-> IF pos[2] = 0 THEN "job" ELSE "step",
     job |-> EntriesOf(tree)[pos[1]].name,
     step |-> IF pos[2] = 0 THEN ""
              ELSE DisplayNameOwed(StepItems(EntriesOf(tree)[pos[1]].job)[pos[2]])]

LocationsOwed(tree, classes) ==
    LET all == InDocumentOrder(UsesPositions(tree))
        kept == SelectSeq(all, LAMBDA pos : RuleClass(UsesValueAt(tree, pos)) \in classes)
    IN  [i \in 1..Len(kept) |-> LocationAt(tree, kept[i])]

LocationsGiven(messages) ==
    LET given == SelectSeq(messages, LAMBDA m : m.kind \in UsesKinds)
    IN  [i \in 1..Len(given) |-> given[i].location]

WorkflowLevelKinds == {"no-top-level-permissions", "pull-request-target"}

\* C15 as amended: every finding of the job rule names its job, every finding
\* of the uses rule names its job and, at step level, the step display name;
\* the two workflow-level warnings name no job and no step.
C15_JobAndStepFindingsNameTheirLocation ==
    \A i \in 1..Len(reports) :
        /\ \A m \in Findings(reports[i]) :
              /\ NamesJob(m) <=> m.kind \notin WorkflowLevelKinds
              /\ m.kind = "job-inherits"
                    => \E e \in Range(EntriesOf(TreeOf(i))) :
                          e.name = m.job /\ ~e.job.permissions
        /\ LocationsGiven(reports[i].warnings)
              = LocationsOwed(TreeOf(i), {"unpinned", "floating-branch", "floating-tag"})
        /\ LocationsGiven(reports[i].infos) = LocationsOwed(TreeOf(i), {"pinned-sha"})

\* A report whose first step has an empty name and is shown by its id, and
\* whose second step has neither and is shown as "unnamed step".
C15_Witness ==
    \E i \in 1..Len(reports) :
        LET given == LocationsGiven(reports[i].warnings)
        IN  /\ Len(given) = 2
            /\ given[1] = [level |-> "step", job |-> JobNames[1], step |-> "s1"]
            /\ given[2] = [level |-> "step", job |-> JobNames[1], step |-> "unnamed step"]
            /\ StepItems(EntriesOf(TreeOf(i))[1].job)[1].name = Key("")


ParseFailures == {i \in 1..Len(workflow_paths) : TreeOf(i).t = "error"}

\* C16: main analyses every discovered file before it prints a report; when a
\* discovered file fails to parse the run aborts at the first such file: no
\* later file is analysed, main returns no status, and stdout holds no report,
\* not even of the files analysed before.
C16_AbortAtFirstParseFailure ==
    /\ stdout # <<>> /\ dirExists /\ Discovered # {}
          => /\ Len(reports) = Len(workflow_paths)
             /\ Len(workflow_paths) = Cardinality(Discovered)
    /\ (\E n \in Discovered : dir[n].t = "error")
          => /\ stdout = <<>>
             /\ status = NoStatus
             /\ pc \in {"start", "analyze", "raised"}
             /\ pc # "start" => \A f \in ParseFailures : Len(reports) < f

\* The run has aborted at the second of three files, the first one analysed.
C16_Witness ==
    /\ pc = "raised"
    /\ Len(workflow_paths) = 3
    /\ Len(reports) = 1
    /\ TreeOf(2).t = "error"
    /\ Len(reports[1].warnings) > 0
    /\ stdout = <<>>

====
